---- MODULE Spec2Model ----
(***************************************************************************)
(* A model of clapp::ArgumentParser (include/clapp.hpp, version 1.1.0):    *)
(* the declaration of options, and parse() with its scan                   *)
(* (parseArguments), the overruling check, the required check and the      *)
(* callback dispatch.  Strings are sequences of one-character strings, so  *)
(* that find('='), substr and std::stoi are computed, not assumed.         *)
(* Indices into m_argv and m_options are 0-based as in the code; At reads  *)
(* a 0-based index of a TLA+ sequence.                                     *)
(***************************************************************************)
EXTENDS Integers, Sequences, FiniteSets, TLC

VARIABLES args, m_argv, m_curr_arg, m_options, m_options_map, m_option_order,
          callbacks, out, pc, ret, exc

vars == <<args, m_argv, m_curr_arg, m_options, m_options_map, m_option_order,
          callbacks, out, pc, ret, exc>>

(***************************************************************************)
(* Bounds of the model.                                                    *)
(***************************************************************************)
\* the longest argument vector, the program name not counted
MaxArgs == 2
\* the largest number of declarations made before parse()
MaxOptions == 2

(***************************************************************************)
(* The vocabulary: option keys, value texts and the argv tokens built from *)
(* them.                                                                   *)
(***************************************************************************)
kA == <<"-", "a">>
kF == <<"-", "f">>
kFlong == <<"-", "-", "f">>
kP == <<"P">>
v1 == <<"1">>
vx == <<"x">>
vd == <<"d">>
Prog == <<>>
Eq(k, v) == k \o <<"=">> \o v

\* the last token holds two '=': its value part is itself a token with '='
Tokens == {kA, kF, v1, vx, Eq(kA, v1), Eq(kA, vx), Eq(vx, Eq(vx, kF))}

RECURSIVE SeqsUpTo(_, _)
SeqsUpTo(S, n) ==
    IF n = 0 THEN {<<>>}
    ELSE LET shorter == SeqsUpTo(S, n - 1)
         IN  shorter \cup {Append(s, t) : s \in shorter, t \in S}

\* the argument vectors a parser is constructed with: the empty vector, or
\* the program name followed by up to MaxArgs tokens
ArgvSet == {<<>>} \cup {<<Prog>> \o s : s \in SeqsUpTo(Tokens, MaxArgs)}

At(s, i) == s[i + 1]

(***************************************************************************)
(* Values.  A T m_value is a record with one field per modelled type, so   *)
(* that values of different options can sit in one sequence.  A value of   *)
(* type "indeterminate" is a default-initialised int or bool member: the   *)
(* library never reads it before it is assigned.                           *)
(***************************************************************************)
StrVal(s) == [t |-> "string", s |-> s, n |-> 0, b |-> FALSE]
IntVal(n) == [t |-> "int", s |-> <<>>, n |-> n, b |-> FALSE]
BoolVal(b) == [t |-> "bool", s |-> <<>>, n |-> 0, b |-> b]
Indeterminate == [t |-> "indeterminate", s |-> <<>>, n |-> 0, b |-> FALSE]

\* T m_value; as the constructor of OptionWrapper<T> leaves it
InitialValue(T) == IF T = "string" THEN StrVal(<<>>) ELSE Indeterminate

(***************************************************************************)
(* Exceptions: the class thrown, the message and the option name() in it.  *)
(***************************************************************************)
NoExc == [class |-> "none", what |-> "", name |-> <<>>]
ArgumentParserException(what, name) ==
    [class |-> "ArgumentParserException", what |-> what, name |-> name]
StdException(class, what) == [class |-> class, what |-> what, name |-> <<>>]

(***************************************************************************)
(* Type conversions (TypeParser<T>::Get).                                  *)
(***************************************************************************)
Digits == {"0", "1", "2", "3", "4", "5", "6", "7", "8", "9"}
DigitVal(c) ==
    CASE c = "0" -> 0 [] c = "1" -> 1 [] c = "2" -> 2 [] c = "3" -> 3
      [] c = "4" -> 4 [] c = "5" -> 5 [] c = "6" -> 6 [] c = "7" -> 7
      [] c = "8" -> 8 [] c = "9" -> 9
IntMax == 2147483647

RECURSIVE SkipSpace(_)
SkipSpace(s) == IF s # <<>> /\ Head(s) = " " THEN SkipSpace(Tail(s)) ELSE s

RECURSIVE DigitPrefix(_)
DigitPrefix(s) ==
    IF s # <<>> /\ Head(s) \in Digits THEN <<Head(s)>> \o DigitPrefix(Tail(s))
    ELSE <<>>

RECURSIVE Decimal(_, _)
Decimal(ds, acc) ==
    IF ds = <<>> THEN acc ELSE Decimal(Tail(ds), 10 * acc + DigitVal(Head(ds)))

\* std::stoi: leading white space, an optional sign, then the longest run of
\* digits; std::invalid_argument when there is no digit, std::out_of_range
\* when the number does not fit an int
stoi(value) ==
    LET s0 == SkipSpace(value)
        signed == s0 # <<>> /\ Head(s0) \in {"-", "+"}
        neg == s0 # <<>> /\ Head(s0) = "-"
        ds == DigitPrefix(IF signed THEN Tail(s0) ELSE s0)
        mag == Decimal(ds, 0)
    IN  IF ds = <<>>
        THEN [threw |-> TRUE, val |-> Indeterminate,
              exc |-> StdException("std::invalid_argument", "stoi")]
        ELSE IF (IF neg THEN mag > IntMax + 1 ELSE mag > IntMax)
        THEN [threw |-> TRUE, val |-> Indeterminate,
              exc |-> StdException("std::out_of_range", "stoi")]
        ELSE [threw |-> FALSE, val |-> IntVal(IF neg THEN 0 - mag ELSE mag),
              exc |-> NoExc]

\* as TypeParser<bool>::Get, with value.empty() forgotten
TypeParserBool_EmptyIsFalse(value) ==
    BoolVal(value = <<"1">> \/ value = <<"t", "r", "u", "e">>)

TypeParserBool(value) ==
    BoolVal(value = <<>> \/ value = <<"1">> \/ value = <<"t", "r", "u", "e">>)

TypeParserGet(T, value) ==
    CASE T = "int" -> stoi(value)
      [] T = "bool" ->
            [threw |-> FALSE, val |-> TypeParserBool(value), exc |-> NoExc]
      [] OTHER -> [threw |-> FALSE, val |-> StrVal(value), exc |-> NoExc]

(***************************************************************************)
(* Options (struct Option and OptionWrapper<T>).  m_ref says whether a     *)
(* caller variable is bound by store(), and ref is that variable.          *)
(* choices is the declared choice set (empty: unrestricted); the header    *)
(* has no choices(), which the tests and the example call, so choices and  *)
(* checkChoices follow the specification (sections 3 and 4.2).             *)
(***************************************************************************)
NewOption(short_option, long_option, T) ==
    [short_option |-> short_option, long_option |-> long_option, type |-> T,
     required |-> FALSE, set |-> FALSE, flag |-> FALSE, overruling |-> FALSE,
     has_default_value |-> FALSE, m_value |-> InitialValue(T),
     m_ref |-> FALSE, ref |-> Indeterminate, choices |-> {}]

\* Option::name(): the short key, then " (long)" when there is a long key
name(o) ==
    o.short_option \o
    (IF o.long_option # <<>> THEN <<" ", "(">> \o o.long_option \o <<")">>
     ELSE <<>>)

required(o) == [o EXCEPT !.required = TRUE]

flag(o) == [o EXCEPT !.flag = TRUE]

overruling(o) == [o EXCEPT !.overruling = TRUE]

\* as defaultValue, with Option::set = true forgotten
defaultValue_NotSet(o, value) ==
    [o EXCEPT !.has_default_value = TRUE, !.m_value = value]

defaultValue(o, value) ==
    [o EXCEPT !.set = TRUE, !.has_default_value = TRUE, !.m_value = value]

\* the variable the caller binds, as the caller initialised it
CallerVariable(T) ==
    CASE T = "int" -> IntVal(0) [] T = "bool" -> BoolVal(FALSE)
      [] OTHER -> StrVal(<<>>)

store(o) == [o EXCEPT !.m_ref = TRUE, !.ref = CallerVariable(o.type)]

choices(o, C) == [o EXCEPT !.choices = C]

\* OptionWrapper<T>::setValue: set is assigned before the conversion, so a
\* conversion that throws leaves set = true and m_value as it was
setValue(o, value) ==
    LET o1 == [o EXCEPT !.set = TRUE]
        g == TypeParserGet(o.type, value)
    IN  IF g.threw THEN [threw |-> TRUE, exc |-> g.exc, option |-> o1]
        ELSE [threw |-> FALSE, exc |-> NoExc,
              option |-> [o1 EXCEPT !.m_value = g.val,
                                    !.ref = IF o1.m_ref THEN g.val ELSE @]]

(***************************************************************************)
(* The parser as a record of its members; the actions below move the       *)
(* variables from one such record to the next.                             *)
(***************************************************************************)
Self ==
    [m_argv |-> m_argv, m_curr_arg |-> m_curr_arg, m_options |-> m_options,
     m_options_map |-> m_options_map, m_option_order |-> m_option_order,
     callbacks |-> callbacks, out |-> out, pc |-> pc, ret |-> ret,
     exc |-> exc]

Become(p) ==
    /\ m_argv' = p.m_argv
    /\ m_curr_arg' = p.m_curr_arg
    /\ m_options' = p.m_options
    /\ m_options_map' = p.m_options_map
    /\ m_option_order' = p.m_option_order
    /\ callbacks' = p.callbacks
    /\ out' = p.out
    /\ pc' = p.pc
    /\ ret' = p.ret
    /\ exc' = p.exc
    /\ UNCHANGED args

\* ArgumentParser(const std::vector<std::string>& arguments)
ArgumentParser(arguments) ==
    [m_argv |-> arguments, m_curr_arg |-> 1, m_options |-> <<>>,
     m_options_map |-> <<>>, m_option_order |-> <<>>, callbacks |-> <<>>,
     out |-> 0, pc |-> "declare", ret |-> "none", exc |-> NoExc]

\* an exception leaving parse()
Throw(p, e) == [p EXCEPT !.exc = e, !.ret = "throw", !.pc = "done"]

\* m_options_map[key] = idx
MapPut(map, key, idx) ==
    [k \in DOMAIN map \cup {key} |-> IF k = key THEN idx ELSE map[k]]

(***************************************************************************)
(* Declaration.                                                            *)
(***************************************************************************)
\* option<T>(short_option, long_option): the new option is appended before
\* the keys are looked at, so it stays in m_options when the call throws
option(p, short_option, long_option, T) ==
    LET opts == Append(p.m_options, NewOption(short_option, long_option, T))
        idx == Len(opts) - 1
        map1 == IF short_option # <<>>
                THEN MapPut(p.m_options_map, short_option, idx)
                ELSE p.m_options_map
        map2 == IF long_option # <<>> THEN MapPut(map1, long_option, idx)
                ELSE map1
    IN  IF short_option = <<>> /\ long_option = <<>>
        THEN [threw |-> TRUE,
              p |-> [p EXCEPT !.m_options = opts,
                              !.exc = ArgumentParserException(
                                  "Short option and long option name cannot both be empty.",
                                  <<>>)]]
        ELSE [threw |-> FALSE,
              p |-> [p EXCEPT !.m_options = opts, !.m_options_map = map2]]

\* one builder call on an option handle
Builder(o, b) ==
    CASE b = "required" -> required(o)
      [] b = "flag" -> flag(o)
      [] b = "overruling" -> overruling(o)
      [] b = "defaultValue" -> defaultValue(o, StrVal(vd))
      [] b = "store" -> store(o)
      [] b = "choices" -> choices(o, {v1})

RECURSIVE Chain(_, _)
Chain(o, bs) == IF bs = <<>> THEN o ELSE Chain(Builder(o, Head(bs)), Tail(bs))

\* the declaration statements of a caller: option<T>(short, long) followed
\* by the builder calls chained on the handle it returns
Statements ==
    { [short |-> kA, long |-> <<>>, T |-> "string", chain |-> <<>>],
      [short |-> kA, long |-> <<>>, T |-> "int",
       chain |-> <<"required", "store">>],
      [short |-> kA, long |-> <<>>, T |-> "string",
       chain |-> <<"required", "store", "defaultValue">>],
      [short |-> kA, long |-> <<>>, T |-> "string", chain |-> <<"choices">>],
      [short |-> kA, long |-> <<>>, T |-> "string",
       chain |-> <<"overruling">>],
      [short |-> kF, long |-> <<>>, T |-> "bool", chain |-> <<"flag">>],
      [short |-> kF, long |-> kFlong, T |-> "bool",
       chain |-> <<"flag", "overruling">>],
      [short |-> <<>>, long |-> kP, T |-> "string", chain |-> <<>>],
      [short |-> <<>>, long |-> <<>>, T |-> "bool", chain |-> <<>>] }

Statement(p, s) ==
    LET r == option(p, s.short, s.long, s.T)
        n == Len(r.p.m_options)
    IN  IF r.threw THEN r.p
        ELSE [r.p EXCEPT !.m_options[n] = Chain(@, s.chain)]

(***************************************************************************)
(* parse() and the passes it runs.                                         *)
(***************************************************************************)
\* std::string::find('='): the 1-based position of the first '=', 0 for npos
RECURSIVE find(_, _, _)
find(arg, c, from) ==
    IF from > Len(arg) THEN 0
    ELSE IF arg[from] = c THEN from
    ELSE find(arg, c, from + 1)

\* as parseOptionWithEqualSign, with the value taken one character late
\* (substr(equal_sign_pos + 2) for substr(equal_sign_pos + 1))
parseOptionWithEqualSign_OneLate(arg) ==
    LET equal_sign_pos == find(arg, "=", 1)
    IN  IF equal_sign_pos # 0
        THEN [option |-> SubSeq(arg, 1, equal_sign_pos - 1),
              has_value |-> TRUE,
              value |-> SubSeq(arg, equal_sign_pos + 2, Len(arg))]
        ELSE [option |-> arg, has_value |-> FALSE, value |-> <<>>]

parseOptionWithEqualSign(arg) ==
    LET equal_sign_pos == find(arg, "=", 1)
    IN  IF equal_sign_pos # 0
        THEN [option |-> SubSeq(arg, 1, equal_sign_pos - 1),
              has_value |-> TRUE,
              value |-> SubSeq(arg, equal_sign_pos + 1, Len(arg))]
        ELSE [option |-> arg, has_value |-> FALSE, value |-> <<>>]

\* as Insert, with the value inserted twice
Insert_Twice(argv, pos, value) ==
    SubSeq(argv, 1, pos) \o <<value, value>> \o SubSeq(argv, pos + 1, Len(argv))

\* m_argv.insert(m_argv.begin() + pos, value)
Insert(argv, pos, value) ==
    SubSeq(argv, 1, pos) \o <<value>> \o SubSeq(argv, pos + 1, Len(argv))

\* help() reads m_argv[0], which an empty vector does not have (undefined
\* behaviour), and asserts that every option has a key (checked unless the
\* build defines NDEBUG): the outcomes a build can produce
help(p) ==
    IF Len(p.m_argv) = 0 THEN {"printed", "crash"}
    ELSE IF \E i \in 1..Len(p.m_options) :
                /\ p.m_options[i].short_option = <<>>
                /\ p.m_options[i].long_option = <<>>
    THEN {"printed", "crash"}
    ELSE {"printed"}

printHelp(p) ==
    { IF h = "printed" THEN [p EXCEPT !.out = @ + 1]
      ELSE [p EXCEPT !.ret = "crash", !.pc = "done"] : h \in help(p) }

\* consume(): the cursor moves before the bound is tested
consume(p) ==
    LET p1 == [p EXCEPT !.m_curr_arg = @ + 1]
    IN  IF p1.m_curr_arg >= Len(p1.m_argv)
        THEN [threw |-> TRUE, value |-> <<>>,
              p |-> Throw(p1, StdException("std::runtime_error",
                                           "No more arguments."))]
        ELSE [threw |-> FALSE, value |-> At(p1.m_argv, p1.m_curr_arg),
              p |-> p1]

\* as checkChoices, with every value accepted
checkChoices_AcceptsAll(o, value) == TRUE

\* the choice set of an option is checked before the value is converted
\* (specification 4.2: "Validate against choiceSet if non-empty")
checkChoices(o, value) == o.choices = {} \/ value \in o.choices

\* OptionWrapper<T>::invokeCallback: m_callback(m_value)
invokeCallback(p, idx) ==
    [p EXCEPT !.callbacks =
        Append(@, [idx |-> idx, value |-> At(p.m_options, idx).m_value])]

\* as parseValue, with the callback invoked as soon as the value is set
parseValue_InvokesCallback(p, idx) ==
    LET o == At(p.m_options, idx)
        c == consume(p)
        r == setValue(o, c.value)
    IN  IF c.threw THEN c.p
        ELSE IF c.value \in DOMAIN p.m_options_map
        THEN Throw(c.p, ArgumentParserException("Expected argument after",
                                                name(o)))
        ELSE IF ~checkChoices(o, c.value)
        THEN Throw(c.p, ArgumentParserException("Invalid choice", name(o)))
        ELSE IF r.threw
        THEN Throw([c.p EXCEPT !.m_options[idx + 1] = r.option], r.exc)
        ELSE invokeCallback([c.p EXCEPT !.m_options[idx + 1] = r.option,
                                        !.m_option_order = Append(@, idx),
                                        !.m_curr_arg = @ + 1], idx)

\* as parseValue, with an option recorded only the first time it is matched
parseValue_RecordsOnce(p, idx) ==
    LET o == At(p.m_options, idx)
        c == consume(p)
        r == setValue(o, c.value)
    IN  IF c.threw THEN c.p
        ELSE IF c.value \in DOMAIN p.m_options_map
        THEN Throw(c.p, ArgumentParserException("Expected argument after",
                                                name(o)))
        ELSE IF ~checkChoices(o, c.value)
        THEN Throw(c.p, ArgumentParserException("Invalid choice", name(o)))
        ELSE IF r.threw
        THEN Throw([c.p EXCEPT !.m_options[idx + 1] = r.option], r.exc)
        ELSE [c.p EXCEPT !.m_options[idx + 1] = r.option,
                         !.m_option_order =
                             IF \E k \in 1..Len(@) : @[k] = idx THEN @
                             ELSE Append(@, idx),
                         !.m_curr_arg = @ + 1]

\* as parseValue, with the test of the value against the registered keys
\* forgotten
parseValue_NoKeyCheck(p, idx) ==
    LET o == At(p.m_options, idx)
        c == consume(p)
        r == setValue(o, c.value)
    IN  IF c.threw THEN c.p
        ELSE IF ~checkChoices(o, c.value)
        THEN Throw(c.p, ArgumentParserException("Invalid choice", name(o)))
        ELSE IF r.threw
        THEN Throw([c.p EXCEPT !.m_options[idx + 1] = r.option], r.exc)
        ELSE [c.p EXCEPT !.m_options[idx + 1] = r.option,
                         !.m_option_order = Append(@, idx),
                         !.m_curr_arg = @ + 1]

\* the value of a non-flag option: consume the next argument, refuse a
\* registered key and a value outside the choice set, then setValue
parseValue(p, idx) ==
    LET o == At(p.m_options, idx)
        c == consume(p)
        r == setValue(o, c.value)
    IN  IF c.threw THEN c.p
        ELSE IF c.value \in DOMAIN p.m_options_map
        THEN Throw(c.p, ArgumentParserException("Expected argument after",
                                                name(o)))
        ELSE IF ~checkChoices(o, c.value)
        THEN Throw(c.p, ArgumentParserException("Invalid choice", name(o)))
        ELSE IF r.threw
        THEN Throw([c.p EXCEPT !.m_options[idx + 1] = r.option], r.exc)
        ELSE [c.p EXCEPT !.m_options[idx + 1] = r.option,
                         !.m_option_order = Append(@, idx),
                         !.m_curr_arg = @ + 1]

\* as parseArguments, with a token that is no registered key taking the
\* token after it along
parseArguments_UnknownTakesNext(p) ==
    LET arg == At(p.m_argv, p.m_curr_arg)
        split == parseOptionWithEqualSign(arg)
        p1 == IF split.has_value
              THEN [p EXCEPT !.m_argv =
                        Insert(@, p.m_curr_arg + 1, split.value)]
              ELSE p
    IN  IF split.option \in DOMAIN p1.m_options_map
        THEN LET idx == p1.m_options_map[split.option]
                 o == At(p1.m_options, idx)
                 r == setValue(o, <<>>)
             IN  IF o.flag
                 THEN IF r.threw
                      THEN Throw([p1 EXCEPT !.m_options[idx + 1] = r.option],
                                 r.exc)
                      ELSE [p1 EXCEPT !.m_options[idx + 1] = r.option,
                                      !.m_option_order = Append(@, idx),
                                      !.m_curr_arg = @ + 1]
                 ELSE parseValue(p1, idx)
        ELSE [p1 EXCEPT !.m_curr_arg = @ + 2]

\* one pass of the while loop of parseArguments()
parseArguments(p) ==
    LET arg == At(p.m_argv, p.m_curr_arg)
        split == parseOptionWithEqualSign(arg)
        p1 == IF split.has_value
              THEN [p EXCEPT !.m_argv =
                        Insert(@, p.m_curr_arg + 1, split.value)]
              ELSE p
    IN  IF split.option \in DOMAIN p1.m_options_map
        THEN LET idx == p1.m_options_map[split.option]
                 o == At(p1.m_options, idx)
                 r == setValue(o, <<>>)
             IN  IF o.flag
                 THEN IF r.threw
                      THEN Throw([p1 EXCEPT !.m_options[idx + 1] = r.option],
                                 r.exc)
                      ELSE [p1 EXCEPT !.m_options[idx + 1] = r.option,
                                      !.m_option_order = Append(@, idx),
                                      !.m_curr_arg = @ + 1]
                 ELSE parseValue(p1, idx)
        ELSE [p1 EXCEPT !.m_curr_arg = @ + 1]

\* as checkOverrulingOptions, with the return after the callback forgotten
checkOverrulingOptions_GoesOn(p) ==
    LET hits == {i \in 0..(Len(p.m_options) - 1) :
                    At(p.m_options, i).set /\ At(p.m_options, i).overruling}
        first == CHOOSE i \in hits : \A j \in hits : i <= j
    IN  IF hits # {}
        THEN [invokeCallback(p, first) EXCEPT !.pc = "required"]
        ELSE [p EXCEPT !.pc = "required"]

\* as checkOverrulingOptions, with the test of option->set forgotten
checkOverrulingOptions_IgnoresSet(p) ==
    LET hits == {i \in 0..(Len(p.m_options) - 1) :
                    At(p.m_options, i).overruling}
        first == CHOOSE i \in hits : \A j \in hits : i <= j
    IN  IF hits # {}
        THEN [invokeCallback(p, first) EXCEPT !.ret = "false", !.pc = "done"]
        ELSE [p EXCEPT !.pc = "required"]

\* the first set overruling option in declaration order has its callback
\* invoked and parse() returns false; otherwise parse() goes on
checkOverrulingOptions(p) ==
    LET hits == {i \in 0..(Len(p.m_options) - 1) :
                    At(p.m_options, i).set /\ At(p.m_options, i).overruling}
        first == CHOOSE i \in hits : \A j \in hits : i <= j
    IN  IF hits # {}
        THEN [invokeCallback(p, first) EXCEPT !.ret = "false", !.pc = "done"]
        ELSE [p EXCEPT !.pc = "required"]

checkRequiredOptions(p) ==
    LET missing == {i \in 0..(Len(p.m_options) - 1) :
                       At(p.m_options, i).required /\ ~At(p.m_options, i).set}
        first == CHOOSE i \in missing : \A j \in missing : i <= j
    IN  IF missing # {}
        THEN Throw(p, ArgumentParserException("is required.",
                                              name(At(p.m_options, first))))
        ELSE [p EXCEPT !.pc = "callbacks"]

\* as invokeAll, going through the invocation record from its end
RECURSIVE invokeAll_BackToFront(_, _)
invokeAll_BackToFront(p, order) ==
    IF order = <<>> THEN p
    ELSE invokeAll_BackToFront(invokeCallback(p, order[Len(order)]),
                               SubSeq(order, 1, Len(order) - 1))

RECURSIVE invokeAll(_, _)
invokeAll(p, order) ==
    IF order = <<>> THEN p
    ELSE invokeAll(invokeCallback(p, Head(order)), Tail(order))

\* invokeCallbacks(), then parse() returns true
invokeCallbacks(p) ==
    [invokeAll(p, p.m_option_order) EXCEPT !.ret = "true", !.pc = "done"]

\* the head of parse(): fewer than two arguments print the help
parse(p) ==
    IF Len(p.m_argv) < 2
    THEN { IF q.pc = "done" THEN q ELSE [q EXCEPT !.ret = "false", !.pc = "done"]
           : q \in printHelp(p) }
    ELSE {[p EXCEPT !.pc = "scan"]}

\* what parse() does next from p, and the states it can end in
Succ(p) ==
    CASE p.pc = "declare" -> parse(p)
      [] p.pc = "scan" /\ p.m_curr_arg < Len(p.m_argv) -> {parseArguments(p)}
      [] p.pc = "scan" /\ p.m_curr_arg >= Len(p.m_argv) ->
            {checkOverrulingOptions(p)}
      [] p.pc = "required" -> {checkRequiredOptions(p)}
      [] p.pc = "callbacks" -> {invokeCallbacks(p)}
      [] OTHER -> {}

RECURSIVE Finals(_)
Finals(p) ==
    IF p.pc = "done" THEN {p} ELSE UNION {Finals(q) : q \in Succ(p)}

(***************************************************************************)
(* The state machine.                                                      *)
(***************************************************************************)
Init ==
    /\ args \in ArgvSet
    /\ m_argv = args
    /\ m_curr_arg = 1
    /\ m_options = <<>>
    /\ m_options_map = <<>>
    /\ m_option_order = <<>>
    /\ callbacks = <<>>
    /\ out = 0
    /\ pc = "declare"
    /\ ret = "none"
    /\ exc = NoExc

Declare ==
    /\ pc = "declare"
    /\ Len(m_options) < MaxOptions
    /\ \E s \in Statements : Become(Statement(Self, s))

Parse ==
    /\ pc = "declare"
    /\ \E q \in parse(Self) : Become(q)

ParseArguments ==
    /\ pc = "scan"
    /\ m_curr_arg < Len(m_argv)
    /\ Become(parseArguments(Self))

CheckOverrulingOptions ==
    /\ pc = "scan"
    /\ m_curr_arg >= Len(m_argv)
    /\ Become(checkOverrulingOptions(Self))

CheckRequiredOptions ==
    /\ pc = "required"
    /\ Become(checkRequiredOptions(Self))

InvokeCallbacks ==
    /\ pc = "callbacks"
    /\ Become(invokeCallbacks(Self))

Next ==
    \/ Declare
    \/ Parse
    \/ ParseArguments
    \/ CheckOverrulingOptions
    \/ CheckRequiredOptions
    \/ InvokeCallbacks

Spec == Init /\ [][Next]_vars

(***************************************************************************)
(* Vocabulary of the properties.                                           *)
(***************************************************************************)
\* what a caller can observe of a finished parse(): the options, the
\* invocation record, the callbacks invoked, the output and the result
Outcome(p) ==
    [m_options |-> p.m_options, m_option_order |-> p.m_option_order,
     callbacks |-> p.callbacks, out |-> p.out, ret |-> p.ret, exc |-> p.exc]

Outcomes(p) == {Outcome(q) : q \in Finals(p)}

\* argv with the token at 0-based position i replaced by the tokens of ts
Replace(argv, i, ts) ==
    SubSeq(argv, 1, i) \o ts \o SubSeq(argv, i + 2, Len(argv))

OptionIndices == 0..(Len(m_options) - 1)

Registered(key) == key \in DOMAIN m_options_map

OptionOf(key) == At(m_options, m_options_map[key])

\* the token is K, '=' and a value text
IsKeyEquals(tok, K) ==
    /\ Len(tok) > Len(K)
    /\ SubSeq(tok, 1, Len(K)) = K
    /\ tok[Len(K) + 1] = "="

\* the token is 'K=v' for a registered key K of a non-flag option
IsKeyEqualsValue(tok) ==
    \E K \in DOMAIN m_options_map : IsKeyEquals(tok, K) /\ ~OptionOf(K).flag

\* the two tokens 'K', 'v' of a token 'K=v'
TwoTokens(tok) ==
    LET K == CHOOSE K \in DOMAIN m_options_map : IsKeyEquals(tok, K)
    IN  <<K, SubSeq(tok, Len(K) + 2, Len(tok))>>

Matched(idx) == \E k \in 1..Len(m_option_order) : m_option_order[k] = idx

InArgs(tok) == \E i \in 1..(Len(args) - 1) : At(args, i) = tok

(***************************************************************************)
(* C1 as stated: for every token 'K=v' of argv with K a declared non-flag  *)
(* option, parse() on argv and parse() on argv with that token replaced by *)
(* the two tokens 'K', 'v' end in the same outcome.                        *)
(***************************************************************************)
C1_AnyTokenKeyEqualsValue ==
    pc = "declare" =>
        \A i \in 1..(Len(m_argv) - 1) :
            IsKeyEqualsValue(At(m_argv, i)) =>
                Outcomes(Self) =
                Outcomes([Self EXCEPT !.m_argv =
                             Replace(@, i, TwoTokens(At(m_argv, i)))])

(***************************************************************************)
(* C1 amended: whenever the scan reaches a token 'K=v' with K a registered *)
(* key of a non-flag option, the parse() ends in the same outcome as with  *)
(* that token replaced by the two tokens 'K', 'v'.                         *)
(***************************************************************************)
C1_ScannedKeyEqualsValue ==
    (/\ pc = "scan"
     /\ m_curr_arg < Len(m_argv)
     /\ IsKeyEqualsValue(At(m_argv, m_curr_arg))) =>
        Outcomes(Self) =
        Outcomes([Self EXCEPT !.m_argv =
                     Replace(@, m_curr_arg, TwoTokens(At(m_argv, m_curr_arg)))])

C1_Witness ==
    /\ pc = "done"
    /\ ret = "true"
    /\ InArgs(Eq(kA, v1))
    /\ \E i \in OptionIndices :
          Matched(i) /\ At(m_options, i).m_value = StrVal(v1)

(***************************************************************************)
(* C2: with N positional options declared and N plain tokens in argv among *)
(* valid named options, after parse() the i-th declared positional option  *)
(* holds the i-th plain token.                                             *)
(***************************************************************************)
\* an option declared by a display name only
IsPositional(o) ==
    /\ o.short_option = <<>>
    /\ o.long_option # <<>>
    /\ Head(o.long_option) # "-"

\* the positional options among opts, in declaration order
RECURSIVE PositionalsOf(_)
PositionalsOf(opts) ==
    IF opts = <<>> THEN <<>>
    ELSE IF IsPositional(Head(opts))
    THEN <<Head(opts)>> \o PositionalsOf(Tail(opts))
    ELSE PositionalsOf(Tail(opts))

Positionals == PositionalsOf(m_options)

IsPlain(tok) == tok # <<>> /\ Head(tok) # "-" /\ find(tok, "=", 1) = 0

\* the tokens of argv from 0-based position i on that are neither a named
\* option nor the value of one
RECURSIVE NonOptionTokens(_, _)
NonOptionTokens(argv, i) ==
    IF i >= Len(argv) THEN <<>>
    ELSE LET tok == At(argv, i)
             split == parseOptionWithEqualSign(tok)
         IN  IF Registered(split.option) /\ ~IsPositional(OptionOf(split.option))
             THEN IF OptionOf(split.option).flag \/ split.has_value
                  THEN NonOptionTokens(argv, i + 1)
                  ELSE NonOptionTokens(argv, i + 2)
             ELSE <<tok>> \o NonOptionTokens(argv, i + 1)

C2_PositionalsInDeclarationOrder ==
    LET toks == NonOptionTokens(args, 1)
    IN  (/\ pc = "done"
         /\ ret = "true"
         /\ Len(Positionals) >= 1
         /\ Len(toks) = Len(Positionals)
         /\ \A k \in 1..Len(toks) : IsPlain(toks[k])) =>
            \A k \in 1..Len(toks) :
                \E i \in OptionIndices :
                    /\ IsPositional(At(m_options, i))
                    /\ Len(PositionalsOf(SubSeq(m_options, 1, i + 1))) = k
                    /\ At(m_options, i).set
                    /\ At(m_options, i).m_value = StrVal(toks[k])

(***************************************************************************)
(* C3 as stated: if a key of an overruling option is a token of argv,      *)
(* parse() returns false without raising an error and invokes the callback *)
(* of that option and no other callback, whatever the other tokens are.    *)
(***************************************************************************)
OverrulingTokenAt(i) ==
    /\ Registered(At(args, i))
    /\ OptionOf(At(args, i)).overruling

C3_OverrulingAnywhere ==
    pc = "done" =>
        \A i \in 1..(Len(args) - 1) :
            OverrulingTokenAt(i) =>
                /\ ret = "false"
                /\ Len(callbacks) = 1
                /\ callbacks[1].idx = m_options_map[At(args, i)]

(***************************************************************************)
(* C3 amended: if the scan matched an overruling option and raised no      *)
(* error, parse() returns false and invokes exactly one callback, that of  *)
(* the first set overruling option in declaration order (the matched one   *)
(* when no other overruling option is set), with its current value, even   *)
(* when required options are missing.                                      *)
(***************************************************************************)
SetOverruling ==
    {i \in OptionIndices : At(m_options, i).set /\ At(m_options, i).overruling}

C3_OverrulingAfterScan ==
    (/\ pc = "done"
     /\ ret # "throw"
     /\ \E i \in OptionIndices : Matched(i) /\ At(m_options, i).overruling) =>
        /\ ret = "false"
        /\ Len(callbacks) = 1
        /\ callbacks[1].idx \in SetOverruling
        /\ \A j \in SetOverruling : callbacks[1].idx <= j
        /\ callbacks[1].value = At(m_options, callbacks[1].idx).m_value
        /\ (Cardinality(SetOverruling) = 1 => Matched(callbacks[1].idx))

C3_Witness ==
    /\ pc = "done"
    /\ ret = "false"
    /\ Len(callbacks) = 1
    /\ Matched(callbacks[1].idx)
    /\ At(m_options, callbacks[1].idx).overruling
    /\ \E i \in OptionIndices :
          At(m_options, i).required /\ ~At(m_options, i).set
    /\ Len(m_option_order) = 1

(***************************************************************************)
(* C4 as stated: for every argv (holding at least the program name) in     *)
(* which no key of a required option R is the key of a token, parse()      *)
(* raises the missing-required error naming R when R has no default, and   *)
(* returns true with R's value equal to the default when R has one.        *)
(***************************************************************************)
NotInArgv(o) ==
    \A k \in 1..(Len(args) - 1) :
        LET key == parseOptionWithEqualSign(At(args, k)).option
        IN  key # o.short_option /\ key # o.long_option

RequiredError(o) == ArgumentParserException("is required.", name(o))

C4_RequiredForEveryArgv ==
    (pc = "done" /\ Len(args) >= 1) =>
        \A i \in OptionIndices :
            LET R == At(m_options, i)
            IN  (R.required /\ NotInArgv(R)) =>
                    IF ~R.has_default_value
                    THEN ret = "throw" /\ exc = RequiredError(R)
                    ELSE ret = "true" /\ R.m_value = StrVal(vd)

(***************************************************************************)
(* C4 amended: for every argv of at least two entries whose scan raises no *)
(* error and leaves no overruling option set, and every required option R  *)
(* the scan did not match: if R has no default, parse() raises the         *)
(* missing-required error, naming R when no required option declared       *)
(* before R is unset; if R has a default d, R counts as set and its value  *)
(* is d, and parse() returns true when no required option is unset.        *)
(***************************************************************************)
ScanError == ret = "throw" /\ exc.what # "is required."

Unset == {i \in OptionIndices :
             At(m_options, i).required /\ ~At(m_options, i).set}

C4_RequiredAfterScan ==
    (/\ pc = "done"
     /\ Len(args) >= 2
     /\ ~ScanError
     /\ SetOverruling = {}) =>
        \A i \in OptionIndices :
            LET R == At(m_options, i)
            IN  (R.required /\ ~Matched(i)) =>
                    IF ~R.has_default_value
                    THEN /\ ret = "throw"
                         /\ exc.class = "ArgumentParserException"
                         /\ exc.what = "is required."
                         /\ ((\A j \in Unset : i <= j) => exc = RequiredError(R))
                    ELSE /\ R.set
                         /\ R.m_value = StrVal(vd)
                         /\ (Unset = {} => ret = "true")

C4_Witness ==
    /\ pc = "done"
    /\ Len(args) >= 2
    /\ ret = "true"
    /\ \E i \in OptionIndices :
          /\ At(m_options, i).required
          /\ At(m_options, i).has_default_value
          /\ ~Matched(i)
          /\ At(m_options, i).m_value = StrVal(vd)

(***************************************************************************)
(* C5: when the token under the cursor is a key of a flag option, the scan *)
(* step sets the option's value to true, marks it set and records it, and  *)
(* consumes nothing: the argument vector is left as it is and the cursor   *)
(* moves to the very next token, which the scan goes on with.              *)
(***************************************************************************)
Cursor == At(m_argv, m_curr_arg)

C6_KeyAsValueIsMissingArgument ==
    [][(/\ pc = "scan"
        /\ m_curr_arg + 1 < Len(m_argv)
        /\ Registered(Cursor)
        /\ ~OptionOf(Cursor).flag
        /\ Registered(At(m_argv, m_curr_arg + 1))) =>
           /\ pc' = "done"
           /\ ret' = "throw"
           /\ exc' = ArgumentParserException("Expected argument after",
                                             name(OptionOf(Cursor)))
           /\ m_options' = m_options
           /\ m_option_order' = m_option_order
           /\ callbacks' = callbacks]_vars

C6_Witness ==
    /\ pc = "done"
    /\ ret = "throw"
    /\ exc = ArgumentParserException("Expected argument after", kA)
    /\ Len(args) = 3
    /\ At(args, 1) = kA
    /\ At(args, 2) = kF
    /\ Registered(kF)

(***************************************************************************)
(* C7: when the last token of argv is a key of a non-flag option K and the *)
(* scan reaches it, parse() throws the missing-argument                    *)
(* ArgumentParserException naming K, as it does when the value is a        *)
(* registered key.                                                         *)
(***************************************************************************)
LastToken == At(m_argv, Len(m_argv) - 1)

C7_LastTokenIsMissingArgument ==
    (/\ pc = "done"
     /\ Len(m_argv) >= 2
     /\ m_curr_arg = Len(m_argv)
     /\ Registered(LastToken)
     /\ ~OptionOf(LastToken).flag) =>
        /\ ret = "throw"
        /\ exc = ArgumentParserException("Expected argument after",
                                         name(OptionOf(LastToken)))

(***************************************************************************)
(* C8: when the scan gives a value to an option declared with a non-empty  *)
(* choice set, a value outside the set makes parse() throw the             *)
(* invalid-choice error and a value inside the set is stored.              *)
(***************************************************************************)
CursorSplit == parseOptionWithEqualSign(Cursor)

CursorValue ==
    IF CursorSplit.has_value THEN CursorSplit.value
    ELSE At(m_argv, m_curr_arg + 1)

C8_ChoiceSetEnforced ==
    [][(/\ pc = "scan"
        /\ m_curr_arg < Len(m_argv)
        /\ Registered(CursorSplit.option)
        /\ ~OptionOf(CursorSplit.option).flag
        /\ OptionOf(CursorSplit.option).choices # {}
        /\ (CursorSplit.has_value \/ m_curr_arg + 1 < Len(m_argv))
        /\ ~Registered(CursorValue)) =>
           IF CursorValue \in OptionOf(CursorSplit.option).choices
           THEN /\ pc' = "scan"
                /\ ret' = "none"
                /\ At(m_options', m_options_map[CursorSplit.option]).set
                /\ At(m_options', m_options_map[CursorSplit.option]).m_value =
                       StrVal(CursorValue)
           ELSE /\ pc' = "done"
                /\ ret' = "throw"
                /\ exc' = ArgumentParserException(
                              "Invalid choice",
                              name(OptionOf(CursorSplit.option)))
                /\ m_options' = m_options]_vars

C8_Witness ==
    /\ pc = "done"
    /\ ret = "throw"
    /\ exc = ArgumentParserException("Invalid choice", kA)
    /\ InArgs(Eq(kA, vx))

(***************************************************************************)
(* C9: when argv has fewer than two entries, parse() prints the help and   *)
(* returns false; it raises no error, runs no scan, sets no option and     *)
(* invokes no callback.                                                    *)
(***************************************************************************)
C9_ShortArgvPrintsHelp ==
    (pc = "done" /\ Len(args) < 2) =>
        /\ ret = "false"
        /\ out = 1
        /\ m_curr_arg = 1
        /\ m_argv = args
        /\ m_option_order = <<>>
        /\ callbacks = <<>>
        /\ \A i \in OptionIndices :
              At(m_options, i).set => At(m_options, i).has_default_value

(***************************************************************************)
(* C10 as stated: for every argv (holding at least the program name),      *)
(* parse() returns true if and only if no set overruling option            *)
(* short-circuited the call and no required, choice or conversion failure  *)
(* occurred.                                                               *)
(***************************************************************************)
ShortCircuited == ret = "false" /\ SetOverruling # {}

RequiredFailure == ret = "throw" /\ exc.what = "is required."

ChoiceFailure == ret = "throw" /\ exc.what = "Invalid choice"

ConversionFailure ==
    ret = "throw" /\ exc.class \in {"std::invalid_argument", "std::out_of_range"}

MissingArgumentFailure ==
    ret = "throw" /\ exc.what \in {"Expected argument after", "No more arguments."}

C10_TrueIffNoFailure ==
    (pc = "done" /\ Len(args) >= 1) =>
        (ret = "true" <=>
            /\ ~ShortCircuited
            /\ ~RequiredFailure
            /\ ~ChoiceFailure
            /\ ~ConversionFailure)

(***************************************************************************)
(* C10 amended: parse() returns true if and only if argv has at least two  *)
(* entries, no overruling option is set at the end of the scan, and no     *)
(* error is raised; the errors it raises are the missing-argument,         *)
(* required, choice and conversion errors.                                 *)
(***************************************************************************)
C10_TrueIffScannedWithoutFailure ==
    pc = "done" =>
        /\ ret = "true" <=>
              /\ Len(args) >= 2
              /\ SetOverruling = {}
              /\ ret # "throw"
        /\ ret = "throw" =>
              \/ MissingArgumentFailure
              \/ RequiredFailure
              \/ ChoiceFailure
              \/ ConversionFailure

C10_Witness ==
    /\ pc = "done"
    /\ ret = "true"
    /\ Len(m_option_order) = 2
    /\ \E i \in OptionIndices : At(m_options, i).overruling

(***************************************************************************)
(* C11: a declaration with a key an earlier option declared is rejected,   *)
(* so after any sequence of declarations each key refers to the option     *)
(* that declared it first.                                                 *)
(***************************************************************************)
HasKey(o, key) == key # <<>> /\ (o.short_option = key \/ o.long_option = key)

C11_KeyRefersToFirstDeclaration ==
    \A key \in DOMAIN m_options_map :
        \A i \in OptionIndices :
            HasKey(At(m_options, i), key) => m_options_map[key] <= i

(***************************************************************************)
(* C12 as stated: a token of argv whose key part matches no registered key *)
(* has no effect; parse() ends in the same outcome as on argv without      *)
(* that token.                                                             *)
(***************************************************************************)
KeyPart(tok) == parseOptionWithEqualSign(tok).option

C12_UnmatchedTokenAsIfAbsent ==
    (/\ pc = "scan"
     /\ m_curr_arg < Len(m_argv)
     /\ ~Registered(KeyPart(Cursor))) =>
        Outcomes(Self) =
        Outcomes([Self EXCEPT !.m_argv = Replace(@, m_curr_arg, <<>>)])

(***************************************************************************)
(* C12 amended: the scan step on a token whose key part matches no         *)
(* registered key raises no error, changes no option, records no           *)
(* invocation and invokes no callback; the cursor moves to the next token, *)
(* which is the value part of the token when the token has a '=' (the      *)
(* value part is inserted behind the token and scanned as a token of its   *)
(* own).                                                                   *)
(***************************************************************************)
C12_UnmatchedTokenIsSkipped ==
    [][(/\ pc = "scan"
        /\ m_curr_arg < Len(m_argv)
        /\ ~Registered(KeyPart(Cursor))) =>
           /\ pc' = "scan"
           /\ ret' = "none"
           /\ exc' = exc
           /\ m_options' = m_options
           /\ m_option_order' = m_option_order
           /\ callbacks' = callbacks
           /\ m_curr_arg' = m_curr_arg + 1
           /\ IF find(Cursor, "=", 1) = 0
              THEN m_argv' = m_argv
              ELSE /\ Len(m_argv') = Len(m_argv) + 1
                   /\ At(m_argv', m_curr_arg') =
                          SubSeq(Cursor, find(Cursor, "=", 1) + 1, Len(Cursor))
                   /\ \A j \in 0..(Len(m_argv) - 1) :
                          At(m_argv', IF j <= m_curr_arg THEN j ELSE j + 1) =
                          At(m_argv, j)]_vars

C12_Witness ==
    /\ pc = "done"
    /\ ret = "true"
    /\ Len(args) = 2
    /\ At(args, 1) = Eq(vx, Eq(vx, kF))
    /\ ~Registered(vx)
    /\ Registered(kF)
    /\ OptionOf(kF).set
    /\ Matched(m_options_map[kF])

(***************************************************************************)
(* C13: when the value given to an integer option is not numeric text,     *)
(* parse() fails with a parser exception (ArgumentParserException, as the  *)
(* other parse errors) that carries the name of the option.                *)
(***************************************************************************)
\* the scan stopped on the value token of the option token before it
StoppedOnValue ==
    /\ pc = "done"
    /\ ret = "throw"
    /\ m_curr_arg >= 2
    /\ m_curr_arg < Len(m_argv)
    /\ Registered(KeyPart(At(m_argv, m_curr_arg - 1)))
    /\ ~OptionOf(KeyPart(At(m_argv, m_curr_arg - 1))).flag
    /\ ~Registered(Cursor)

C13_ConversionErrorIsParserException ==
    (/\ StoppedOnValue
     /\ OptionOf(KeyPart(At(m_argv, m_curr_arg - 1))).type = "int"
     /\ stoi(Cursor).threw) =>
        /\ exc.class = "ArgumentParserException"
        /\ exc.name = name(OptionOf(KeyPart(At(m_argv, m_curr_arg - 1))))

(***************************************************************************)
(* C14: on a successful parse() the callbacks invoked are those of the     *)
(* invocation record, in its order (the order in which the scan matched    *)
(* the options, not the declaration order), one per entry, each with the   *)
(* current value of the option; an option the scan did not match, a        *)
(* default or not, gets no callback.                                       *)
(***************************************************************************)
C14_CallbacksInInvocationOrder ==
    (pc = "done" /\ ret = "true") =>
        /\ Len(callbacks) = Len(m_option_order)
        /\ \A k \in 1..Len(callbacks) :
              /\ callbacks[k].idx = m_option_order[k]
              /\ callbacks[k].value = At(m_options, callbacks[k].idx).m_value
        /\ \A i \in OptionIndices :
              ~Matched(i) => \A k \in 1..Len(callbacks) : callbacks[k].idx # i
        /\ \A k \in 1..Len(m_option_order) :
              \E j \in 1..(Len(m_argv) - 1) :
                  /\ Registered(KeyPart(At(m_argv, j)))
                  /\ m_options_map[KeyPart(At(m_argv, j))] = m_option_order[k]
                  /\ k <= j

C14_Witness ==
    /\ pc = "done"
    /\ ret = "true"
    /\ Len(m_options) = 2
    /\ m_option_order = <<1, 0>>
    /\ callbacks[1].idx = 1
    /\ callbacks[2].idx = 0
    /\ At(m_options, 0).m_value # At(m_options, 1).m_value

(***************************************************************************)
(* C15: at every point of a parse() call (on an argv holding at least the  *)
(* program name), an option bound to a caller variable by store() that is  *)
(* set, by a match or by its default, has the variable equal to its        *)
(* current value.                                                          *)
(***************************************************************************)
C15_BindingMirrorsValue ==
    (pc # "declare" /\ Len(args) >= 1) =>
        \A i \in OptionIndices :
            LET o == At(m_options, i)
            IN  (o.m_ref /\ o.set) => o.ref = o.m_value

(***************************************************************************)
(* C16: no callback is invoked while the scan runs: callbacks are invoked  *)
(* only when the cursor has passed the last token, and a parse() that      *)
(* fails with an error has invoked none, whatever the scan matched before  *)
(* the failing token.                                                      *)
(***************************************************************************)
C16_NoCallbackDuringScan ==
    /\ pc = "scan" => callbacks = <<>>
    /\ callbacks # <<>> =>
          /\ pc = "done"
          /\ ret \in {"true", "false"}
          /\ m_curr_arg >= Len(m_argv)
    /\ (pc = "done" /\ ret = "throw") => callbacks = <<>>

C16_Witness ==
    /\ pc = "done"
    /\ ScanError
    /\ m_option_order # <<>>
    /\ callbacks = <<>>

(***************************************************************************)
(* C17: the scan of parse() terminates.  Every pass of the scan either     *)
(* ends the scan (the cursor is at the end of the grown vector, or an      *)
(* error is raised) or strictly decreases a measure that is never          *)
(* negative: the tokens from the cursor on, each '=' in them counted       *)
(* twice more.  The number of tokens injected into the vector is at most   *)
(* the number of '=' characters of the original argv.                      *)
(***************************************************************************)
RECURSIVE EqualSigns(_)
EqualSigns(tok) ==
    IF tok = <<>> THEN 0
    ELSE (IF Head(tok) = "=" THEN 1 ELSE 0) + EqualSigns(Tail(tok))

RECURSIVE EqualSignsOf(_)
EqualSignsOf(argv) ==
    IF argv = <<>> THEN 0 ELSE EqualSigns(Head(argv)) + EqualSignsOf(Tail(argv))

\* what is left to scan of argv with the cursor at 0-based position cur
Measure(argv, cur) ==
    IF cur >= Len(argv) THEN 0
    ELSE (Len(argv) - cur) + 2 * EqualSignsOf(SubSeq(argv, cur + 1, Len(argv)))

Injected == Len(m_argv) - Len(args)

C17_ScanTerminates ==
    [][pc = "scan" =>
          /\ pc' \in {"scan", "required", "done"}
          /\ pc' = "scan" =>
                Measure(m_argv', m_curr_arg') < Measure(m_argv, m_curr_arg)
          /\ (pc' # "scan" /\ ret' # "throw") => m_curr_arg' >= Len(m_argv')
          /\ Injected' >= Injected
          /\ Injected' <= EqualSignsOf(args)]_vars

C17_Witness ==
    /\ pc = "done"
    /\ ret = "true"
    /\ Len(args) = 2
    /\ Injected = 2
    /\ EqualSignsOf(args) = 2
    /\ m_curr_arg = Len(m_argv)

(***************************************************************************)
(* C18: when a non-flag option is given k > 1 times in argv, each time     *)
(* with a valid value, and parse() succeeds, the value of the option and   *)
(* its bound variable are the value of the last occurrence, and its        *)
(* callback is invoked exactly k times, each time with that final value.   *)
(***************************************************************************)
\* the occurrences of option idx in the scanned vector argv from position j
\* on: how many there are, and the value token of the last one
RECURSIVE Occurrences(_, _, _, _)
Occurrences(argv, j, idx, acc) ==
    IF j >= Len(argv) THEN acc
    ELSE LET key == KeyPart(At(argv, j))
         IN  IF ~Registered(key) \/ OptionOf(key).flag
             THEN Occurrences(argv, j + 1, idx, acc)
             ELSE Occurrences(argv, j + 2, idx,
                      IF m_options_map[key] = idx
                      THEN [n |-> acc.n + 1, last |-> At(argv, j + 1)]
                      ELSE acc)

CallbackTimes(idx) ==
    Cardinality({k \in 1..Len(callbacks) : callbacks[k].idx = idx})

C19_FailedDeclarationLeavesRegistry ==
    [][(/\ pc = "declare"
        /\ pc' = "declare"
        /\ exc = NoExc
        /\ exc' # NoExc) =>
           /\ m_options' = m_options
           /\ m_options_map' = m_options_map]_vars

====
